---- MODULE Spec2Model ----
(***************************************************************************)
(* A model of binance_trade_bot/auto_trader.py (class AutoTrader).         *)
(*                                                                         *)
(* State: the database's current coin and pair ratios, the process-local  *)
(* best_ratios ledger, and the position of the single thread of control   *)
(* inside scout() / transaction_through_bridge().  The collaborators      *)
(* (ticker prices, fees, sell_alt, buy_alt) answer nondeterministically.  *)
(*                                                                         *)
(* The handlers are called one at a time by a scheduler outside the       *)
(* class: from "idle" a handler runs to "returned" (scout() through the   *)
(* steps of the transition when it jumps), and the scheduler's next step  *)
(* drops the handler's locals.  `before` keeps the database and ledger as *)
(* they were at the call, so that a handler's effect can be stated on the *)
(* state it leaves.  Within one call the ticker answers one price per     *)
(* symbol.                                                                 *)
(*                                                                         *)
(* Numbers: prices are positive integers, fees are multiples of 1/FeeDen; *)
(* ratios and advantages are exact rationals <<n, d>> in lowest terms     *)
(* with d > 0.  Python's None is <<0, 0>> for a ratio, 0 for a price and  *)
(* "None" for a coin.                                                      *)
(***************************************************************************)
EXTENDS Integers, Sequences, FiniteSets

VARIABLES
    SUPPORTED_COIN_LIST, \* config.SUPPORTED_COIN_LIST; a coin is enabled iff listed
    CURRENT_COIN_SYMBOL, \* config.CURRENT_COIN_SYMBOL as the call of
                         \* initialize_current_coin in progress read it
    current_coin,        \* db.get_current_coin(): a coin, or "None"
    ratio,               \* Pair.ratio for every ordered pair, None when uncalibrated
    best_ratios,         \* self.best_ratios; None marks an absent key
    pc,                  \* where the thread of control is
    best_pair,           \* the pair handed to transaction_through_bridge
    ratio_dict,          \* scout's ratio_dict, in insertion order
    result,              \* price of the successful buy_alt, 0 while there is none
    ticker,              \* get_ticker_price answers given in the step just taken
    orders,              \* sell_alt / buy_alt calls of the handler in progress,
                         \* a run of refused buys noted once
    log,                 \* what the handler in progress reported last
    calls,               \* number of handler calls the scheduler has made
    before               \* current_coin, ratio and best_ratios as they were when
                         \* the handler in progress was called

vars == <<SUPPORTED_COIN_LIST, CURRENT_COIN_SYMBOL, current_coin, ratio, best_ratios,
          pc, best_pair,
          ratio_dict, result, ticker, orders, log, calls, before>>

---------------------------------------------------------------------------
(* Bounds of the model *)

MaxCalls == 4        \* handler calls explored (heartbeat not counted)

(* Program constants *)

FeeDen == 8          \* fees are multiples of 1/FeeDen
FeePerLeg == 1       \* the exchange charges FeePerLeg/FeeDen on either leg
SCOUT_MULTIPLIER == 1

Coins == {"A", "B", "C"}
NoCoin == "None"
Unsupported == "X"
NoSymbol == ""       \* CURRENT_COIN_SYMBOL left empty
NotRead == "-"       \* the handler in progress has not read CURRENT_COIN_SYMBOL

Prices == {1, 2}
NoPrice == 0
NotAsked == -1

---------------------------------------------------------------------------
(* Exact rational arithmetic standing for Python floats *)

None == <<0, 0>>

Abs(n) == IF n < 0 THEN -n ELSE n

RECURSIVE GCD(_, _)
GCD(a, b) == IF b = 0 THEN a ELSE GCD(b, a % b)

Rat(n, d) ==
    LET g == GCD(Abs(n), d)
    IN  <<n \div g, d \div g>>

RatSub(x, y) == Rat(x[1] * y[2] - y[1] * x[2], x[2] * y[2])
RatMul(x, y) == Rat(x[1] * y[1], x[2] * y[2])
RatLess(x, y) == x[1] * y[2] < y[1] * x[2]
RatMax(x, y) == IF RatLess(x, y) THEN y ELSE x
Positive(x) == x[1] > 0

---------------------------------------------------------------------------
(* The database's pairs: every ordered pair of distinct coins, in id order *)

AllPairs ==
    <<<<"A", "B">>, <<"A", "C">>, <<"B", "A">>, <<"B", "C">>, <<"C", "A">>, <<"C", "B">>>>

Pairs == {AllPairs[i] : i \in 1..Len(AllPairs)}
NoPair == <<NoCoin, NoCoin>>

FromCoin(pair) == pair[1]
ToCoin(pair) == pair[2]

get_pairs_from(coin) ==
    LET fromCoin(pair) == FromCoin(pair) = coin
    IN  SelectSeq(AllPairs, fromCoin)

Enabled(coin) == coin \in SUPPORTED_COIN_LIST

NoAnswers == [c \in Coins |-> NotAsked]
Answers(px, asked) == [c \in Coins |-> IF c \in asked THEN px[c] ELSE NotAsked]
EmptyLedger == [p \in Pairs |-> None]

---------------------------------------------------------------------------
(* scout(): the pure parts *)

\* (coin_opt_coin_ratio - transaction_fee * SCOUT_MULTIPLIER * coin_opt_coin_ratio) - pair.ratio
Advantage(current_coin_price, optional_coin_price, fee, pair_ratio) ==
    LET coin_opt_coin_ratio == Rat(current_coin_price, optional_coin_price)
        transaction_fee == Rat(fee, FeeDen)
        fee_term == RatMul(RatMul(transaction_fee, Rat(SCOUT_MULTIPLIER, 1)),
                           coin_opt_coin_ratio)
    IN  RatSub(RatSub(coin_opt_coin_ratio, fee_term), pair_ratio)

\* manager.get_fee(coin, BRIDGE, selling), in units of 1/FeeDen
get_fee(coin, selling) == FeePerLeg

\* What one iteration of the candidate loop does with its pair:
\* "disabled" and "no_price" continue, "raise" is the TypeError of
\* subtracting a None ratio, "store" writes ratio_dict[pair].
Candidate(pair, px) ==
    IF ~Enabled(ToCoin(pair)) THEN "disabled"
    ELSE IF px[ToCoin(pair)] = NoPrice THEN "no_price"
    ELSE IF ratio[pair] = None THEN "raise"
    ELSE "store"

\* The candidate loop over get_pairs_from(current_coin), from index i on.
\* acc.dict is ratio_dict so far, acc.asked the symbols whose price was fetched.
RECURSIVE ScoutLoop(_, _, _, _)
ScoutLoop(pairs, i, px, acc) ==
    IF i > Len(pairs) THEN acc
    ELSE
        LET pair == pairs[i]
            to == ToCoin(pair)
            what == Candidate(pair, px)
            seen == [acc EXCEPT !.asked = @ \cup {to}]
        IN  CASE what = "disabled" -> ScoutLoop(pairs, i + 1, px, acc)
              [] what = "no_price" -> ScoutLoop(pairs, i + 1, px, seen)
              [] what = "raise" -> [seen EXCEPT !.raised = TRUE]
              [] OTHER ->
                    ScoutLoop(pairs, i + 1, px,
                        [seen EXCEPT !.dict = Append(@,
                            [pair |-> pair,
                             adv |-> Advantage(px[FromCoin(pair)], px[to],
                                get_fee(FromCoin(pair), TRUE) + get_fee(to, FALSE),
                                ratio[pair])])])

\* Mutant of Filtered: the v > 0 filter is forgotten
FilteredKeepsAll(dict) == dict

\* Mutant of Filtered: a candidate is kept only if it also beats the best
\* advantage the ledger holds for its pair
FilteredAgainstLedger(dict) ==
    LET positive(e) ==
            /\ Positive(e.adv)
            /\ best_ratios[e.pair] # None => ~RatLess(e.adv, best_ratios[e.pair])
    IN  SelectSeq(dict, positive)

\* ratio_dict_filtered = {k: v for k, v in ratio_dict.items() if v > 0}
Filtered(dict) ==
    LET positive(e) == Positive(e.adv)
    IN  SelectSeq(dict, positive)

\* max(ratio_dict_filtered, key=ratio_dict_filtered.get): the first entry, in
\* insertion order, that no other entry exceeds.
RECURSIVE MaxEntry(_, _, _)
MaxEntry(dict, i, best) ==
    IF i > Len(dict) THEN best
    ELSE MaxEntry(dict, i + 1, IF RatLess(best.adv, dict[i].adv) THEN dict[i] ELSE best)

BestPair(filtered) == MaxEntry(filtered, 2, filtered[1]).pair

\* The ledger loop at the end of scout(): max with the stored value, or insert.
RECURSIVE UpdateLedger(_, _, _)
UpdateLedger(ledger, dict, i) ==
    IF i > Len(dict) THEN ledger
    ELSE
        LET pair_tuple == dict[i].pair
            value == IF ledger[pair_tuple] # None
                     THEN RatMax(ledger[pair_tuple], dict[i].adv)
                     ELSE dict[i].adv
        IN  UpdateLedger([ledger EXCEPT ![pair_tuple] = value], dict, i + 1)

\* self.best_ratios.clear()
Cleared(ledger) == EmptyLedger

---------------------------------------------------------------------------
(* update_trade_threshold and initialize_trade_thresholds: the pure parts *)

\* Mutant of Recalibrated: the quotient is taken the wrong way round
RecalibratedInverted(coin, current_coin_price, px) ==
    [p \in Pairs |->
        IF ToCoin(p) = coin /\ px[FromCoin(p)] # NoPrice
        THEN Rat(current_coin_price, px[FromCoin(p)])
        ELSE ratio[p]]

\* Mutant of Recalibrated: a pair whose source price is unavailable has its
\* ratio set to None instead of being skipped
RecalibratedNullsMissing(coin, current_coin_price, px) ==
    [p \in Pairs |->
        IF ToCoin(p) = coin
        THEN IF px[FromCoin(p)] # NoPrice
             THEN Rat(px[FromCoin(p)], current_coin_price)
             ELSE None
        ELSE ratio[p]]

\* pair.ratio = from_coin_price / current_coin_price, for pairs into coin
Recalibrated(coin, current_coin_price, px) ==
    [p \in Pairs |->
        IF ToCoin(p) = coin /\ px[FromCoin(p)] # NoPrice
        THEN Rat(px[FromCoin(p)], current_coin_price)
        ELSE ratio[p]]

\* the pairs the update loop visits, and the symbols it asks the ticker for
RecalibratedFrom(coin) == {FromCoin(p) : p \in {q \in Pairs : ToCoin(q) = coin}}

\* The pairs initialize_trade_thresholds does not skip as disabled
Initializable(p) == ratio[p] = None /\ Enabled(FromCoin(p)) /\ Enabled(ToCoin(p))

\* Mutant of Initialized: the ratio.is_(None) filter is missing from the query
InitializedOverwrites(px) ==
    [p \in Pairs |->
        IF /\ Enabled(FromCoin(p)) /\ Enabled(ToCoin(p))
           /\ px[FromCoin(p)] # NoPrice /\ px[ToCoin(p)] # NoPrice
        THEN Rat(px[FromCoin(p)], px[ToCoin(p)])
        ELSE ratio[p]]

Initialized(px) ==
    [p \in Pairs |->
        IF Initializable(p) /\ px[FromCoin(p)] # NoPrice /\ px[ToCoin(p)] # NoPrice
        THEN Rat(px[FromCoin(p)], px[ToCoin(p)])
        ELSE ratio[p]]

\* to_coin's price is fetched only when from_coin's was found
InitAsked(px) ==
    {FromCoin(p) : p \in {q \in Pairs : Initializable(q)}}
    \cup {ToCoin(p) : p \in {q \in Pairs : Initializable(q) /\ px[FromCoin(q)] # NoPrice}}

---------------------------------------------------------------------------
(* Initial state: a fresh database and a newly constructed AutoTrader,    *)
(* the scheduler about to call a handler                                   *)

Init ==
    /\ SUPPORTED_COIN_LIST \in SUBSET Coins
    /\ CURRENT_COIN_SYMBOL = NotRead
    /\ current_coin = NoCoin
    /\ ratio = [p \in Pairs |-> None]
    /\ best_ratios = EmptyLedger
    /\ pc = "idle"
    /\ best_pair = NoPair
    /\ ratio_dict = <<>>
    /\ result = NoPrice
    /\ ticker = NoAnswers
    /\ orders = <<>>
    /\ log = ""
    /\ calls = 0
    /\ before = [current_coin |-> NoCoin, ratio |-> [p \in Pairs |-> None],
                 best_ratios |-> EmptyLedger]

Order(op, coin, ok) == [op |-> op, coin |-> coin, ok |-> ok]

\* What the orders noted so far hold
Issued(op) == \E i \in 1..Len(orders) : orders[i].op = op
Filled(op) == \E i \in 1..Len(orders) : orders[i].op = op /\ orders[i].ok
Refused(op) == \E i \in 1..Len(orders) : orders[i].op = op /\ ~orders[i].ok

\* A handler is called: the scheduler is idle and has calls left
Called ==
    /\ pc = "idle"
    /\ calls < MaxCalls
    /\ calls' = calls + 1
    /\ UNCHANGED before

---------------------------------------------------------------------------
(* initialize_trade_thresholds() *)

InitializeTradeThresholds ==
    /\ Called
    /\ \E px \in [Coins -> Prices \cup {NoPrice}] :
        /\ ratio' = Initialized(px)
        /\ ticker' = Answers(px, InitAsked(px))
    /\ log' = "thresholds_initialized"
    /\ pc' = "returned"
    /\ UNCHANGED <<SUPPORTED_COIN_LIST, CURRENT_COIN_SYMBOL,
                   current_coin, best_ratios, best_pair,
                   ratio_dict, result, orders>>

---------------------------------------------------------------------------
(* initialize_current_coin() *)

\* random.choice of an empty SUPPORTED_COIN_LIST raises IndexError; the
\* choice is made when CURRENT_COIN_SYMBOL is "" or None
BootRaises ==
    /\ SUPPORTED_COIN_LIST = {}
    /\ CURRENT_COIN_SYMBOL' \in {NoSymbol, NoCoin}
    /\ log' = "boot_raised"
    /\ pc' = "returned"
    /\ UNCHANGED <<current_coin, orders>>

\* CURRENT_COIN_SYMBOL == "": a random supported coin is recorded, then bought
BootRandom ==
    /\ CURRENT_COIN_SYMBOL' = NoSymbol
    /\ \E current_coin_symbol \in SUPPORTED_COIN_LIST :
        /\ current_coin' = current_coin_symbol
        /\ \E ok \in BOOLEAN : orders' = <<Order("buy", current_coin_symbol, ok)>>
    /\ log' = "purchased"
    /\ pc' = "returned"

\* CURRENT_COIN_SYMBOL is None: `not current_coin_symbol` holds, so a random
\* supported coin is recorded, but None == "" does not, so nothing is bought
\* and nothing but "Setting initial coin to ..." is logged
BootUnconfigured ==
    /\ CURRENT_COIN_SYMBOL' = NoCoin
    /\ \E current_coin_symbol \in SUPPORTED_COIN_LIST :
        current_coin' = current_coin_symbol
    /\ log' = "configured"
    /\ pc' = "returned"
    /\ UNCHANGED orders

\* Mutant of BootExit: the symbol is recorded before it is looked up in the list
BootExitAfterWrite(current_coin_symbol) ==
    /\ current_coin_symbol \notin SUPPORTED_COIN_LIST
    /\ CURRENT_COIN_SYMBOL' = current_coin_symbol
    /\ current_coin' = current_coin_symbol
    /\ pc' = "exited"
    /\ log' = "exit"
    /\ UNCHANGED orders

\* sys.exit: the configured symbol is not in SUPPORTED_COIN_LIST
BootExit(current_coin_symbol) ==
    /\ current_coin_symbol \notin SUPPORTED_COIN_LIST
    /\ CURRENT_COIN_SYMBOL' = current_coin_symbol
    /\ pc' = "exited"
    /\ log' = "exit"
    /\ UNCHANGED <<current_coin, orders>>

\* Mutant of BootConfigured: the test `if not current_coin_symbol` is lost and
\* random.choice replaces the configured symbol as well
BootConfiguredPicksAny(current_coin_symbol) ==
    /\ current_coin_symbol \in SUPPORTED_COIN_LIST
    /\ CURRENT_COIN_SYMBOL' = current_coin_symbol
    /\ \E chosen \in SUPPORTED_COIN_LIST : current_coin' = chosen
    /\ log' = "configured"
    /\ pc' = "returned"
    /\ UNCHANGED orders

\* a configured symbol of the list is recorded; it is assumed to be held
BootConfigured(current_coin_symbol) ==
    /\ current_coin_symbol \in SUPPORTED_COIN_LIST
    /\ CURRENT_COIN_SYMBOL' = current_coin_symbol
    /\ current_coin' = current_coin_symbol
    /\ log' = "configured"
    /\ pc' = "returned"
    /\ UNCHANGED orders

\* get_current_coin() is not None: nothing to do, the configuration is not read
BootKept ==
    /\ current_coin # NoCoin
    /\ log' = "kept"
    /\ pc' = "returned"
    /\ UNCHANGED <<CURRENT_COIN_SYMBOL, current_coin, orders>>

InitializeCurrentCoin ==
    /\ Called
    /\ \/ BootKept
       \/ /\ current_coin = NoCoin
          /\ \/ BootRaises
             \/ BootRandom
             \/ BootUnconfigured
             \/ \E sym \in Coins \cup {Unsupported} : BootExit(sym) \/ BootConfigured(sym)
    /\ UNCHANGED <<SUPPORTED_COIN_LIST, ratio, best_ratios, best_pair, ratio_dict,
                   result, ticker>>

---------------------------------------------------------------------------
(* scout(): from the call to the return, or to the call of                *)
(* transaction_through_bridge(best_pair)                                   *)

\* current_coin + BRIDGE with no current coin recorded raises TypeError
ScoutNoCoin ==
    /\ current_coin = NoCoin
    /\ log' = "scout_raised"
    /\ pc' = "returned"
    /\ UNCHANGED <<best_ratios, best_pair, ratio_dict, ticker>>

\* Mutant of ScoutSkips: the ledger is cleared before the price is looked at
ScoutSkipsClearing(px) ==
    /\ px[current_coin] = NoPrice
    /\ log' = "skip_scout"
    /\ ticker' = Answers(px, {current_coin})
    /\ best_ratios' = EmptyLedger
    /\ pc' = "returned"
    /\ UNCHANGED <<best_pair, ratio_dict>>

\* current_coin_price is None: "Skipping scouting...", return
ScoutSkips(px) ==
    /\ px[current_coin] = NoPrice
    /\ log' = "skip_scout"
    /\ ticker' = Answers(px, {current_coin})
    /\ pc' = "returned"
    /\ UNCHANGED <<best_ratios, best_pair, ratio_dict>>

ScoutCandidates(px) ==
    /\ px[current_coin] # NoPrice
    /\ LET loop == ScoutLoop(get_pairs_from(current_coin), 1, px,
                             [dict |-> <<>>, asked |-> {current_coin}, raised |-> FALSE])
           ratio_dict_filtered == Filtered(loop.dict)
       IN  /\ ticker' = Answers(px, loop.asked)
           /\ IF loop.raised
              THEN \* TypeError: float - None; the exception leaves scout()
                   /\ log' = "scout_raised"
                   /\ pc' = "returned"
                   /\ UNCHANGED <<best_ratios, best_pair, ratio_dict>>
              ELSE IF ratio_dict_filtered # <<>>
              THEN \* "Will be jumping from ... to ..."
                   /\ log' = "jump"
                   /\ ratio_dict' = loop.dict
                   /\ best_pair' = BestPair(ratio_dict_filtered)
                   /\ pc' = "sell"
                   /\ UNCHANGED best_ratios
              ELSE \* no viable option: the ledger loop, then return
                   /\ log' = "scouted"
                   /\ ratio_dict' = loop.dict
                   /\ best_ratios' = UpdateLedger(best_ratios, loop.dict, 1)
                   /\ pc' = "returned"
                   /\ UNCHANGED best_pair

Scout ==
    /\ Called
    /\ \/ ScoutNoCoin
       \/ /\ current_coin # NoCoin
          /\ \E px \in [Coins -> Prices \cup {NoPrice}] :
                \/ ScoutSkips(px)
                \/ ScoutCandidates(px)
    /\ UNCHANGED <<SUPPORTED_COIN_LIST, CURRENT_COIN_SYMBOL,
                   current_coin, ratio, result, orders>>

---------------------------------------------------------------------------
(* transaction_through_bridge(best_pair), one collaborator call per step *)

\* Mutant of SellAlt: the None result is logged but the buy goes ahead
SellAltIgnoresFailure ==
    /\ pc = "sell"
    /\ \E ok \in BOOLEAN :
        /\ orders' = Append(orders, Order("sell", FromCoin(best_pair), ok))
        /\ log' = IF ok THEN log ELSE "couldnt_sell"
    /\ pc' = "buy"
    /\ ticker' = NoAnswers
    /\ UNCHANGED <<SUPPORTED_COIN_LIST, CURRENT_COIN_SYMBOL,
                   current_coin, ratio, best_ratios, best_pair,
                   ratio_dict, result, calls, before>>

\* Mutant of SellAlt: set_current_coin(pair.to_coin) is called right after
\* the sell, before the buy loop
SellAltRecordsDestination ==
    /\ pc = "sell"
    /\ \E ok \in BOOLEAN :
        /\ orders' = Append(orders, Order("sell", FromCoin(best_pair), ok))
        /\ IF ok
           THEN pc' = "buy" /\ current_coin' = ToCoin(best_pair) /\ UNCHANGED log
           ELSE pc' = "finish" /\ log' = "couldnt_sell" /\ UNCHANGED current_coin
    /\ ticker' = NoAnswers
    /\ UNCHANGED <<SUPPORTED_COIN_LIST, CURRENT_COIN_SYMBOL,
                   ratio, best_ratios, best_pair,
                   ratio_dict, result, calls, before>>

\* manager.sell_alt(pair.from_coin, BRIDGE)
SellAlt ==
    /\ pc = "sell"
    /\ \E ok \in BOOLEAN :
        /\ orders' = Append(orders, Order("sell", FromCoin(best_pair), ok))
        /\ IF ok
           THEN pc' = "buy" /\ UNCHANGED log
           ELSE pc' = "finish" /\ log' = "couldnt_sell"
    /\ ticker' = NoAnswers
    /\ UNCHANGED <<SUPPORTED_COIN_LIST, CURRENT_COIN_SYMBOL,
                   current_coin, ratio, best_ratios, best_pair,
                   ratio_dict, result, calls, before>>

\* orders with one more call noted; a refused buy right after a refused buy
\* is the same line of the log
Noted(order) ==
    IF orders # <<>> /\ orders[Len(orders)] = order /\ ~order.ok
    THEN orders
    ELSE Append(orders, order)

\* Mutant of BuyAltFails: a refused buy ends the transition
BuyAltGivesUp ==
    /\ pc = "buy"
    /\ orders' = Append(orders, Order("buy", ToCoin(best_pair), FALSE))
    /\ pc' = "finish"
    /\ UNCHANGED <<SUPPORTED_COIN_LIST, CURRENT_COIN_SYMBOL,
                   current_coin, ratio, best_ratios, best_pair,
                   ratio_dict, result, ticker, log, calls, before>>

\* Mutant of BuyAltFails: the loop has a retry limit, a second refusal ends it
BuyAltTimesOut ==
    /\ pc = "buy"
    /\ orders' = Noted(Order("buy", ToCoin(best_pair), FALSE))
    /\ pc' = IF Refused("buy") THEN "finish" ELSE "buy"
    /\ UNCHANGED <<SUPPORTED_COIN_LIST, CURRENT_COIN_SYMBOL,
                   current_coin, ratio, best_ratios, best_pair,
                   ratio_dict, result, ticker, log, calls, before>>

\* Mutant of BuyAltFails: set_current_coin is inside the retry loop, so a
\* refused buy already records the destination
BuyAltFailsRecords ==
    /\ pc = "buy"
    /\ orders' = Noted(Order("buy", ToCoin(best_pair), FALSE))
    /\ current_coin' = ToCoin(best_pair)
    /\ UNCHANGED <<SUPPORTED_COIN_LIST, CURRENT_COIN_SYMBOL,
                   ratio, best_ratios, pc, best_pair,
                   ratio_dict, result, ticker, log, calls, before>>

\* result = manager.buy_alt(pair.to_coin, BRIDGE) returned None: the loop
\* goes round again with nothing changed
BuyAltFails ==
    /\ pc = "buy"
    /\ orders' = Noted(Order("buy", ToCoin(best_pair), FALSE))
    /\ UNCHANGED <<SUPPORTED_COIN_LIST, CURRENT_COIN_SYMBOL,
                   current_coin, ratio, best_ratios, pc, best_pair,
                   ratio_dict, result, ticker, log, calls, before>>

\* buy_alt returned an order: the loop ends with result["price"]
BuyAltSucceeds ==
    /\ pc = "buy"
    /\ \E price \in Prices : result' = price
    /\ orders' = Append(orders, Order("buy", ToCoin(best_pair), TRUE))
    /\ pc' = "set_current_coin"
    /\ UNCHANGED <<SUPPORTED_COIN_LIST, CURRENT_COIN_SYMBOL,
                   current_coin, ratio, best_ratios, best_pair,
                   ratio_dict, ticker, log, calls, before>>

\* self.db.set_current_coin(pair.to_coin)
SetCurrentCoin ==
    /\ pc = "set_current_coin"
    /\ current_coin' = ToCoin(best_pair)
    /\ pc' = "update_trade_threshold"
    /\ UNCHANGED <<SUPPORTED_COIN_LIST, CURRENT_COIN_SYMBOL,
                   ratio, best_ratios, best_pair, ratio_dict,
                   result, ticker, orders, log, calls, before>>

\* self.update_trade_threshold(float(result["price"]))
UpdateAfterBuy ==
    /\ pc = "update_trade_threshold"
    /\ \E px \in [Coins -> Prices \cup {NoPrice}] :
        /\ ratio' = Recalibrated(current_coin, result, px)
        /\ ticker' = Answers(px, RecalibratedFrom(current_coin))
    /\ pc' = "finish"
    /\ log' = "jumped"
    /\ UNCHANGED <<SUPPORTED_COIN_LIST, CURRENT_COIN_SYMBOL,
                   current_coin, best_ratios, best_pair,
                   ratio_dict, result, orders, calls, before>>

\* back in scout(): best_ratios.clear(), then the ledger loop, then return
ScoutFinish ==
    /\ pc = "finish"
    /\ best_ratios' = UpdateLedger(Cleared(best_ratios), ratio_dict, 1)
    /\ pc' = "returned"
    /\ ticker' = NoAnswers
    /\ result' = NoPrice
    /\ UNCHANGED <<SUPPORTED_COIN_LIST, CURRENT_COIN_SYMBOL,
                   current_coin, ratio, best_pair, ratio_dict,
                   orders, log, calls, before>>

---------------------------------------------------------------------------
(* update_trade_threshold(current_coin_price) called on its own *)

UpdateTradeThreshold ==
    /\ Called
    /\ \E current_coin_price \in Prices \cup {NoPrice} :
        IF current_coin_price = NoPrice
        THEN \* "Skipping update..."; the message itself raises with no coin
             /\ log' = IF current_coin = NoCoin THEN "update_raised" ELSE "skip_update"
             /\ UNCHANGED <<ratio, ticker>>
        ELSE \E px \in [Coins -> Prices \cup {NoPrice}] :
                /\ ratio' = Recalibrated(current_coin, current_coin_price, px)
                /\ ticker' = Answers(px, RecalibratedFrom(current_coin))
                /\ log' = "updated"
    /\ pc' = "returned"
    /\ UNCHANGED <<SUPPORTED_COIN_LIST, CURRENT_COIN_SYMBOL,
                   current_coin, best_ratios, best_pair,
                   ratio_dict, result, orders>>

---------------------------------------------------------------------------
(* heartbeat(): reports the ledger, writes nothing *)

Heartbeat ==
    /\ pc = "idle"
    /\ log' = IF best_ratios = EmptyLedger THEN "heartbeat_empty" ELSE "heartbeat_ratios"
    /\ pc' = "returned"
    /\ UNCHANGED <<SUPPORTED_COIN_LIST, CURRENT_COIN_SYMBOL,
                   current_coin, ratio, best_ratios, best_pair,
                   ratio_dict, result, ticker, orders, calls, before>>

---------------------------------------------------------------------------
(* The scheduler: a handler has returned (or raised); its locals and what *)
(* it reported are gone when the next one is called                        *)

Schedule ==
    /\ pc = "returned"
    /\ pc' = "idle"
    /\ best_pair' = NoPair
    /\ ratio_dict' = <<>>
    /\ result' = NoPrice
    /\ ticker' = NoAnswers
    /\ orders' = <<>>
    /\ log' = ""
    /\ CURRENT_COIN_SYMBOL' = NotRead
    /\ before' = [current_coin |-> current_coin, ratio |-> ratio,
                  best_ratios |-> best_ratios]
    /\ UNCHANGED <<SUPPORTED_COIN_LIST, current_coin, ratio, best_ratios, calls>>

---------------------------------------------------------------------------

Next ==
    \/ InitializeTradeThresholds
    \/ InitializeCurrentCoin
    \/ Scout
    \/ SellAlt
    \/ BuyAltFails
    \/ BuyAltSucceeds
    \/ SetCurrentCoin
    \/ UpdateAfterBuy
    \/ ScoutFinish
    \/ UpdateTradeThreshold
    \/ Heartbeat
    \/ Schedule

Spec == Init /\ [][Next]_vars

\* The exchange fills the buy order sooner or later, and the thread that
\* left the retry loop runs on to the end of the transition
FairSpec ==
    /\ Spec
    /\ WF_vars(BuyAltSucceeds)
    /\ WF_vars(SetCurrentCoin)
    /\ WF_vars(UpdateAfterBuy)

---------------------------------------------------------------------------
(* Vocabulary of the properties *)

\* log values set by scout() and by the transition it calls
ScoutLogs == {"jump", "couldnt_sell", "jumped", "scouted", "skip_scout", "scout_raised"}

\* The handler in progress, or the one that has just returned, is scout()
InScout == log \in ScoutLogs

Evaluated(pair) == \E i \in 1..Len(ratio_dict) : ratio_dict[i].pair = pair
SomePositive == \E i \in 1..Len(ratio_dict) : ratio_dict[i].adv[1] > 0

\* The pairs scout() iterates over: those leaving the coin held at the call
Candidates == {p \in Pairs : FromCoin(p) = before.current_coin}

---------------------------------------------------------------------------
(* C1: in a scout() cycle in which no evaluated candidate has advantage   *)
(* > 0, no sell or buy order is issued and the held coin is the one held  *)
(* when the cycle began.                                                   *)

C1_NoAdvantageNoTransition ==
    (InScout /\ ~SomePositive) =>
        /\ orders = <<>>
        /\ current_coin = before.current_coin

\* a cycle has returned having evaluated candidates, none of them profitable
C1_Witness ==
    /\ pc = "returned"
    /\ log = "scouted"
    /\ Len(ratio_dict) = 2
    /\ ~SomePositive

---------------------------------------------------------------------------
(* C2: when sell_alt returns None, transaction_through_bridge returns     *)
(* without a buy, and the held coin and every pair's ratio are what they  *)
(* were before the transition was attempted.                               *)

C2_SellFailureLeavesState ==
    log = "couldnt_sell" =>
        /\ ~Issued("buy")
        /\ Refused("sell")
        /\ pc \in {"finish", "returned"}
        /\ current_coin = before.current_coin
        /\ ratio = before.ratio

C2_Witness ==
    /\ log = "couldnt_sell"
    /\ pc = "finish"
    /\ \E p \in Pairs : ratio[p] # None

---------------------------------------------------------------------------
(* C3: after a transition whose sell and buy both succeeded, the held     *)
(* coin is the pair's destination, and every pair into that coin has      *)
(* ratio source_price / acquisition_price when the source's price was     *)
(* available during recalibration, and its earlier ratio otherwise.        *)

C3_SuccessfulTransition ==
    /\ (log = "jumped") => current_coin = ToCoin(best_pair)
    /\ (log = "jumped" /\ pc = "finish") =>
            \A p \in Pairs :
                ToCoin(p) = ToCoin(best_pair) =>
                    ratio[p] = IF ticker[FromCoin(p)] \in Prices
                               THEN Rat(ticker[FromCoin(p)], result)
                               ELSE before.ratio[p]

\* one source price was found and one was not, the latter's pair calibrated
C3_Witness ==
    /\ log = "jumped"
    /\ pc = "finish"
    /\ \E p, q \in Pairs :
        /\ ToCoin(p) = current_coin /\ ToCoin(q) = current_coin
        /\ ticker[FromCoin(p)] \in Prices
        /\ ratio[p] # before.ratio[p]
        /\ ticker[FromCoin(q)] = NoPrice
        /\ ratio[q] # None

---------------------------------------------------------------------------
(* C4: once the sell has succeeded the transition is never abandoned: a   *)
(* step taken in the retry loop is a buy attempt that either stays in the *)
(* loop or is a filled buy, and outside the loop a filled sell always     *)
(* comes with a filled buy.                                                *)

C4_NeverAbandoned ==
    /\ [](Filled("sell") /\ pc # "buy" => Filled("buy"))
    /\ [][pc = "buy" =>
            /\ orders'[Len(orders')].op = "buy"
            /\ \/ pc' = "buy" /\ ~orders'[Len(orders')].ok
               \/ pc' = "set_current_coin" /\ orders'[Len(orders')].ok]_vars

\* a buy was refused and the next attempt was filled
C4_Witness ==
    /\ pc = "set_current_coin"
    /\ Refused("buy")
    /\ Filled("buy")

---------------------------------------------------------------------------
(* C5: if the buy collaborator eventually succeeds, a transition whose    *)
(* sell succeeded eventually returns with the pair's destination as the   *)
(* held coin; the retry loop is left by a filled buy and in no other way. *)

C5_BuyLoopTerminates ==
    /\ \A c \in Coins :
        (pc = "buy" /\ ToCoin(best_pair) = c) ~> (pc = "finish" /\ current_coin = c)
    /\ [][pc = "buy" /\ pc' # "buy" => result' \in Prices /\ Filled("buy")']_vars

C5_Witness ==
    /\ pc = "finish"
    /\ log = "jumped"
    /\ Refused("buy")
    /\ current_coin = ToCoin(best_pair)

---------------------------------------------------------------------------
(* C6: a pair from the held coin whose ratio is None is never in the      *)
(* candidate set; it is skipped and the cycle completes normally.  The    *)
(* code subtracts pair.ratio without testing it, so scout() raises.       *)

C6_UncalibratedPairSkipped ==
    /\ \A i \in 1..Len(ratio_dict) : before.ratio[ratio_dict[i].pair] # None
    /\ ~(log = "scout_raised" /\ current_coin # NoCoin)

---------------------------------------------------------------------------
(* C7: after a successful transition best_ratios is empty when scout()    *)
(* returns and until the next cycle starts.  The code clears the ledger   *)
(* and then runs the ledger loop over this cycle's ratio_dict.            *)

C7_LedgerEmptyAfterTransition ==
    (log = "jumped" /\ pc = "returned") => best_ratios = EmptyLedger

---------------------------------------------------------------------------
(* C8: in a scout() cycle in which no transition succeeds, every ledger   *)
(* entry present before the cycle is present afterwards with a value at   *)
(* least as large.  The code clears the ledger after a failed sell too.   *)

C8_LedgerKeptWithoutTransition ==
    (pc = "returned" /\ log \in {"scouted", "skip_scout", "couldnt_sell", "scout_raised"}) =>
        \A p \in Pairs :
            before.best_ratios[p] # None =>
                /\ best_ratios[p] # None
                /\ ~RatLess(best_ratios[p], before.best_ratios[p])

---------------------------------------------------------------------------
(* C9: when the held coin's own price is unavailable, scout() returns     *)
(* with nothing changed: no candidate price is asked for, no order is     *)
(* issued, and the held coin, the ratios and the ledger are as before.    *)

C9_HeldPriceUnavailable ==
    log = "skip_scout" =>
        /\ pc = "returned"
        /\ ticker = [c \in Coins |-> IF c = current_coin THEN NoPrice ELSE NotAsked]
        /\ ratio_dict = <<>>
        /\ orders = <<>>
        /\ current_coin = before.current_coin
        /\ ratio = before.ratio
        /\ best_ratios = before.best_ratios

\* the cycle was skipped with calibrated pairs and a ledger to lose
C9_Witness ==
    /\ log = "skip_scout"
    /\ best_ratios # EmptyLedger
    /\ \E p \in Candidates : ratio[p] # None /\ Enabled(ToCoin(p))

---------------------------------------------------------------------------
(* C10: an unavailable price for one candidate excludes only that pair:   *)
(* every other pair from the held coin with an enabled destination and an *)
(* available price is evaluated in the same cycle, and a transition is    *)
(* started if an advantage is positive.  An uncalibrated pair among the   *)
(* others makes scout() raise instead (see C6).                            *)

C10_OnlyThatCandidateSkipped ==
    (/\ log \in {"jump", "scouted", "scout_raised"}
     /\ pc \in {"sell", "returned"}
     /\ \E p \in Candidates : Enabled(ToCoin(p)) /\ ticker[ToCoin(p)] = NoPrice) =>
        /\ \A p \in Candidates :
                Enabled(ToCoin(p)) /\ ticker[ToCoin(p)] \in Prices => Evaluated(p)
        /\ SomePositive => pc = "sell"

---------------------------------------------------------------------------
(* More vocabulary: what a scout() cycle computed, read off the answers   *)
(* the ticker gave and the ratios of the call                              *)

\* position of a pair in the database's id order
PairIndex(pair) == CHOOSE i \in 1..Len(AllPairs) : AllPairs[i] = pair

\* the advantage the candidate loop computes for a pair from the held coin
CycleAdvantage(pair) ==
    Advantage(ticker[FromCoin(pair)], ticker[ToCoin(pair)],
              get_fee(FromCoin(pair), TRUE) + get_fee(ToCoin(pair), FALSE),
              before.ratio[pair])

\* the candidate loop computed an advantage for the pair
Computed(pair) ==
    /\ pair \in Candidates
    /\ Enabled(ToCoin(pair))
    /\ ticker[FromCoin(pair)] \in Prices
    /\ ticker[ToCoin(pair)] \in Prices
    /\ before.ratio[pair] # None

\* ... and it was > 0
Found(pair) == Computed(pair) /\ Positive(CycleAdvantage(pair))

\* scout() has run its candidate loop and has not yet called sell_alt
AfterCandidates == log \in {"jump", "scouted", "scout_raised"} /\ pc \in {"sell", "returned"}

---------------------------------------------------------------------------
(* C11: when scout() finds a candidate with advantage > 0 it invokes the  *)
(* transition on one pair; that pair has the maximum advantage of the     *)
(* evaluated candidates, is the first such pair in get_pairs_from order,  *)
(* and has an enabled destination.  A cycle that has found one and then   *)
(* meets an uncalibrated pair raises instead (see C6).                     *)

C11_BestCandidateChosen ==
    (AfterCandidates /\ \E p \in Pairs : Found(p)) =>
        /\ pc = "sell"
        /\ Found(best_pair)
        /\ \A p \in Pairs :
            Computed(p) =>
                /\ ~RatLess(CycleAdvantage(best_pair), CycleAdvantage(p))
                /\ CycleAdvantage(p) = CycleAdvantage(best_pair) =>
                        PairIndex(best_pair) <= PairIndex(p)

---------------------------------------------------------------------------
(* C12: a pair with a disabled endpoint that starts uncalibrated stays    *)
(* uncalibrated while that coin stays disabled.  update_trade_threshold   *)
(* sets the ratio of every pair into the held coin without looking at the *)
(* source's enabled flag.                                                  *)

C12_DisabledPairUncalibrated ==
    \A p \in Pairs :
        (~Enabled(FromCoin(p)) \/ ~Enabled(ToCoin(p))) => ratio[p] = None

---------------------------------------------------------------------------
(* C13: when initialize_current_coin picked the coin at random, the coin  *)
(* is held on return: a buy of it was issued and filled.  The code does   *)
(* not look at what buy_alt returned.                                      *)

C13_RandomCoinAcquired ==
    log = "purchased" =>
        /\ Len(orders) = 1
        /\ orders[1] = Order("buy", current_coin, TRUE)

---------------------------------------------------------------------------
(* C14: with no current coin recorded and a configured symbol that is not *)
(* in SUPPORTED_COIN_LIST, initialize_current_coin ends the process with  *)
(* nothing written: no current coin, no order, and no step afterwards.    *)

C14_ExitBeforeAnyWrite ==
    /\ [](log = "exit" =>
            /\ pc = "exited"
            /\ current_coin = NoCoin
            /\ orders = <<>>
            /\ ratio = before.ratio
            /\ best_ratios = before.best_ratios)
    /\ [][pc # "exited"]_vars

\* the process ended with calibrated ratios in the database
C14_Witness ==
    /\ pc = "exited"
    /\ log = "exit"
    /\ \E p \in Pairs : ratio[p] # None

---------------------------------------------------------------------------
(* C15: once initialize_current_coin has returned normally the current    *)
(* coin is never None again and is always one coin; it is written only by *)
(* the bootstrap (from None) and by set_current_coin after a filled buy,  *)
(* never by scout's own code, update_trade_threshold,                      *)
(* initialize_trade_thresholds or heartbeat.                               *)

C15_HeldCoinWriters ==
    /\ [](current_coin \in Coins \cup {NoCoin})
    /\ [](log \in {"purchased", "configured", "kept"} => current_coin \in Coins)
    /\ [][current_coin # NoCoin => current_coin' # NoCoin]_vars
    /\ [][current_coin' # current_coin =>
            \/ /\ pc = "idle"
               /\ current_coin = NoCoin
               /\ log' \in {"purchased", "configured"}
            \/ /\ pc = "set_current_coin"
               /\ Filled("buy")
               /\ current_coin' = ToCoin(best_pair)]_vars

\* a transition has replaced the coin the bootstrap recorded
C15_Witness ==
    /\ pc = "returned"
    /\ log = "jumped"
    /\ current_coin \in Coins
    /\ before.current_coin \in Coins \ {current_coin}

---------------------------------------------------------------------------
(* C16: best_ratios never influences a decision.  Every outcome of a      *)
(* scout() cycle (how it ends, the pair it jumps on, the orders, the      *)
(* current coin and the ratios) is the value of an expression in the      *)
(* coin and ratios of the call, the ticker's answers, the fees and the    *)
(* outcomes of sell_alt and buy_alt, in which best_ratios does not occur: *)
(* two cycles that agree on those agree on the outcome, whatever their    *)
(* ledgers hold.                                                           *)

\* the candidate loop met an uncalibrated pair with an enabled, priced destination
MeetsUncalibrated ==
    \E p \in Candidates :
        Enabled(ToCoin(p)) /\ ticker[ToCoin(p)] \in Prices /\ before.ratio[p] = None

\* the pair with the greatest advantage > 0, the first in id order among equals
IsBest(pair) ==
    /\ Found(pair)
    /\ \A q \in Pairs :
        Computed(q) =>
            /\ ~RatLess(CycleAdvantage(pair), CycleAdvantage(q))
            /\ CycleAdvantage(q) = CycleAdvantage(pair) => PairIndex(pair) <= PairIndex(q)

\* how the cycle ends its candidate loop, from the inputs alone
Decision ==
    IF ticker[before.current_coin] = NoPrice THEN "skip_scout"
    ELSE IF MeetsUncalibrated THEN "scout_raised"
    ELSE IF \E p \in Pairs : Found(p) THEN "jump"
    ELSE "scouted"

\* the same choice read off ratio_dict, which outlives the ticker's answers
BestInDict(i) ==
    /\ Positive(ratio_dict[i].adv)
    /\ \A j \in 1..Len(ratio_dict) :
        /\ ~RatLess(ratio_dict[i].adv, ratio_dict[j].adv)
        /\ ratio_dict[j].adv = ratio_dict[i].adv => i <= j

C16_LedgerNeverConsulted ==
    /\ (/\ before.current_coin # NoCoin
        /\ pc \in {"sell", "returned"}
        /\ log \in {"skip_scout", "scout_raised", "jump", "scouted"}) =>
            /\ log = Decision
            /\ pc = IF log = "jump" THEN "sell" ELSE "returned"
            /\ orders = <<>>
            /\ current_coin = before.current_coin
            /\ ratio = before.ratio
            /\ log \in {"jump", "scouted"} =>
                /\ \A p \in Pairs : Evaluated(p) <=> Computed(p)
                /\ \A i \in 1..Len(ratio_dict) :
                        ratio_dict[i].adv = CycleAdvantage(ratio_dict[i].pair)
            /\ log = "jump" => IsBest(best_pair)
    /\ log \in {"jump", "couldnt_sell", "jumped"} =>
            /\ \E i \in 1..Len(ratio_dict) : BestInDict(i) /\ best_pair = ratio_dict[i].pair
            /\ \A i \in 1..Len(orders) :
                    orders[i].op = (IF i = 1 THEN "sell" ELSE "buy")
                    /\ orders[i].coin =
                            (IF i = 1 THEN FromCoin(best_pair) ELSE ToCoin(best_pair))
            /\ current_coin = IF log = "jumped" \/ pc = "update_trade_threshold"
                              THEN ToCoin(best_pair)
                              ELSE before.current_coin
            /\ log # "jumped" => ratio = before.ratio
            /\ (log = "jumped" /\ pc = "finish") =>
                    \A p \in Pairs :
                        ratio[p] = IF ToCoin(p) = ToCoin(best_pair)
                                      /\ ticker[FromCoin(p)] \in Prices
                                   THEN Rat(ticker[FromCoin(p)], result)
                                   ELSE before.ratio[p]

\* a jump was decided on a pair for which the ledger held a better advantage
C16_Witness ==
    /\ pc = "sell"
    /\ log = "jump"
    /\ before.best_ratios[best_pair] # None
    /\ RatLess(CycleAdvantage(best_pair), before.best_ratios[best_pair])

---------------------------------------------------------------------------
(* C17: initialize_trade_thresholds sets a ratio only on a pair that is   *)
(* uncalibrated, has both coins enabled and both prices available, and    *)
(* then to price(from) / price(to); with a price unavailable the pair is  *)
(* left uncalibrated, and a pair that has a ratio is not modified.         *)

C17_InitialCalibration ==
    log = "thresholds_initialized" =>
        \A p \in Pairs :
            ratio[p] = IF /\ before.ratio[p] = None
                          /\ Enabled(FromCoin(p)) /\ Enabled(ToCoin(p))
                          /\ ticker[FromCoin(p)] \in Prices
                          /\ ticker[ToCoin(p)] \in Prices
                       THEN Rat(ticker[FromCoin(p)], ticker[ToCoin(p)])
                       ELSE before.ratio[p]

\* one pass that set a pair, left one uncalibrated for want of a price and
\* kept a ratio that the prices of this pass would have changed
C17_Witness ==
    /\ log = "thresholds_initialized"
    /\ \E p, q, r \in Pairs :
        /\ before.ratio[p] = None /\ ratio[p] # None
        /\ Enabled(FromCoin(q)) /\ Enabled(ToCoin(q))
        /\ ticker[ToCoin(q)] = NoPrice /\ ratio[q] = None
        /\ before.ratio[r] # None
        /\ ticker[FromCoin(r)] \in Prices /\ ticker[ToCoin(r)] \in Prices
        /\ ratio[r] # Rat(ticker[FromCoin(r)], ticker[ToCoin(r)])

---------------------------------------------------------------------------
(* C18: with no current coin recorded and a symbol of SUPPORTED_COIN_LIST *)
(* configured, initialize_current_coin records that symbol as the current *)
(* coin and issues no buy and no sell order.                               *)

C18_ConfiguredCoinAssumedHeld ==
    CURRENT_COIN_SYMBOL \in SUPPORTED_COIN_LIST =>
        /\ log = "configured"
        /\ pc = "returned"
        /\ before.current_coin = NoCoin
        /\ current_coin = CURRENT_COIN_SYMBOL
        /\ ~Issued("buy")
        /\ ~Issued("sell")
        /\ ratio = before.ratio
        /\ best_ratios = before.best_ratios

\* the configured symbol was recorded although the list offers another coin
C18_Witness ==
    /\ log = "configured"
    /\ CURRENT_COIN_SYMBOL \in SUPPORTED_COIN_LIST
    /\ current_coin = CURRENT_COIN_SYMBOL
    /\ SUPPORTED_COIN_LIST \ {CURRENT_COIN_SYMBOL} # {}

---------------------------------------------------------------------------
(* C19: a transition goes sell, buy attempts, set_current_coin,           *)
(* recalibration, in that order.  From the filled sell until a buy is     *)
(* filled and set_current_coin has run, the current coin is still the     *)
(* sold source; the ratios are untouched until the current coin names     *)
(* the destination, and the recalibration then works on the pairs into    *)
(* the destination, not on those into the source.                          *)

C19_TransitionOrder ==
    /\ [](pc = "sell" => orders = <<>>)
    /\ [](pc \in {"buy", "set_current_coin"} =>
            /\ Filled("sell")
            /\ orders[1].op = "sell"
            /\ Filled("buy") <=> pc = "set_current_coin"
            /\ current_coin = FromCoin(best_pair)
            /\ current_coin = before.current_coin
            /\ ratio = before.ratio)
    /\ [](pc = "update_trade_threshold" =>
            /\ orders[Len(orders)] = Order("buy", ToCoin(best_pair), TRUE)
            /\ current_coin = ToCoin(best_pair)
            /\ ratio = before.ratio)
    /\ [](log = "jumped" =>
            /\ current_coin = ToCoin(best_pair)
            /\ \A p \in Pairs : ToCoin(p) # current_coin => ratio[p] = before.ratio[p])
    /\ [][pc' # pc /\ pc \in {"sell", "buy", "set_current_coin", "update_trade_threshold"} =>
            <<pc, pc'>> \in {<<"sell", "buy">>, <<"sell", "finish">>,
                             <<"buy", "set_current_coin">>,
                             <<"set_current_coin", "update_trade_threshold">>,
                             <<"update_trade_threshold", "finish">>}]_vars

\* the new coin is recorded and the recalibration is about to run while
\* pairs into the sold coin are calibrated
C19_Witness ==
    /\ pc = "update_trade_threshold"
    /\ Refused("buy")
    /\ current_coin # before.current_coin
    /\ \E p \in Pairs : ToCoin(p) = before.current_coin /\ ratio[p] # None

---------------------------------------------------------------------------
(* C20: update_trade_threshold changes only ratios of pairs into the      *)
(* current coin: every other pair's ratio (those from the current coin    *)
(* included), the current coin and best_ratios are left as they were, and *)
(* a pair whose source price is unavailable keeps its ratio.  Stated of   *)
(* the call on its own and of the call that ends a transition.            *)

C20_UpdateFrame ==
    /\ log \in {"updated", "skip_update", "update_raised"} =>
            /\ current_coin = before.current_coin
            /\ best_ratios = before.best_ratios
            /\ orders = <<>>
            /\ log # "updated" => ratio = before.ratio
            /\ \A p \in Pairs :
                    (ToCoin(p) # current_coin \/ ticker[FromCoin(p)] \notin Prices) =>
                        ratio[p] = before.ratio[p]
    /\ (log = "jumped" /\ pc = "finish") =>
            /\ best_ratios = before.best_ratios
            /\ \A p \in Pairs :
                    (ToCoin(p) # current_coin \/ ticker[FromCoin(p)] \notin Prices) =>
                        ratio[p] = before.ratio[p]

\* an update on its own that set one pair and skipped a calibrated one,
\* with the pairs from the current coin calibrated and a ledger to lose
C20_Witness ==
    /\ log = "updated"
    /\ best_ratios # EmptyLedger
    /\ \E p, q, r \in Pairs :
        /\ ToCoin(p) = current_coin /\ ratio[p] # before.ratio[p]
        /\ ToCoin(q) = current_coin /\ ticker[FromCoin(q)] = NoPrice /\ ratio[q] # None
        /\ FromCoin(r) = current_coin /\ ratio[r] # None

====
